---- MODULE Spec2Model ----
(***************************************************************************)
(* MediNote backend: the recording-session ledger (sessions, audio chunks) *)
(* and the WebSocket connection registry, with the HTTP session endpoints  *)
(* and the WebSocket control/binary handlers that write them.              *)
(*                                                                         *)
(* One action models one whole handler.  The specifications share the     *)
(* actions: SpecStream (the WebSocket path: connections, control messages, *)
(* binary frames), SpecHttp (the out-of-band HTTP path: create, notify,    *)
(* pause, resume, status updates, retry), SpecLifecycle (the HTTP requests *)
(* that move a session's status, with status-only bodies), SpecRegistry    *)
(* (the connection registry alone), SpecUpload (chunk uploads alone, on    *)
(* both paths), SpecStore (the object store adapter), SpecReconnect (one   *)
(* session over successive connections), SpecProgress (the progress        *)
(* report), SpecBindings (several sessions per connection), SpecCounter    *)
(* (frames and status updates), SpecProgressQuery (the progress query over *)
(* all tables) and Spec, the union of the reachable ones.                  *)
(***************************************************************************)
EXTENDS Integers, Sequences, FiniteSets, TLC

(* ------------------------------ bounds -------------------------------- *)
\* session ids the clients may name
MaxSessions == 1
\* connection ids (uuid4 per accepted socket, never reused)
MaxConns == 1
\* rows the chunk ledger may hold
MaxChunks == 2
\* largest chunk number / chunk total a client supplies
MaxChunkNo == 2
\* cap on pause_count / resume_count
MaxCount == 1
\* successive calls of the storage client whose answers are drawn
MaxStoreCalls == 3

SessionIds == 1..MaxSessions
ConnIds == 1..MaxConns
\* the connections of the registry specification: one more socket than the
\* stream clients open, so that a session can move between open connections
RegistryConnIds == 1..(MaxConns + 1)
\* the session ids of the bindings specification: one more than the stream
\* clients name, so that one connection can start several sessions
RegistrySessionIds == 1..(MaxSessions + 1)
ChunkNos == 1..MaxChunkNo

\* Python None for an Optional[int] value, and for a session / connection id
NoTotal == -1
NoId == 0
\* a key the request body does not carry (dict.get falls back to its default)
Absent == -2

Statuses == {"recording", "paused", "processing", "completed"}

\* what one call of storage.upload does: it returns True or a dict without
\* error ("ok"), returns a dict with an error ("error"), or raises ("raise")
StoreAnswers == {"ok", "error", "raise"}
\* the answers the storage client would give to its successive calls
StoreBehaviours == [1..MaxStoreCalls -> StoreAnswers]
\* a store that answers every call alike
Steady(a) == [i \in 1..MaxStoreCalls |-> a]

\* gcs_path "" (not yet stored) and the stored path sessions/{sid}/chunk_{n}
EmptyPath == [sid |-> NoId, n |-> 0]
ChunkPath(sid, n) == [sid |-> sid, n |-> n]

VARIABLES
    sessions,             \* table sessions: id -> row (DOMAIN = existing ids)
    chunks,               \* table audio_chunks, in insertion order
    active_connections,   \* ConnectionManager.active_connections (its keys)
    session_connections,  \* ConnectionManager.session_connections, in dict order
    task,                 \* websocket_endpoint coroutine of each connection
    keepalive,            \* keepalive_ping task of each connection
    resp                  \* what the last handler returned / sent

vars == <<sessions, chunks, active_connections, session_connections,
          task, keepalive, resp>>

(* ------------------------------ helpers ------------------------------- *)
RECURSIVE FirstIndex(_, _, _)
\* index of the first dict entry bound to connection c at or after i, 0 if none
FirstIndex(conns, c, i) ==
    IF i > Len(conns) THEN 0
    ELSE IF conns[i].cid = c THEN i
    ELSE FirstIndex(conns, c, i + 1)

RECURSIVE KeyIndex(_, _, _)
\* index of the dict entry with key sid at or after i, 0 if none
KeyIndex(conns, sid, i) ==
    IF i > Len(conns) THEN 0
    ELSE IF conns[i].sid = sid THEN i
    ELSE KeyIndex(conns, sid, i + 1)

RemoveAt(s, i) == [j \in 1..(Len(s) - 1) |-> IF j < i THEN s[j] ELSE s[j + 1]]

\* for sid, cid in session_connections.items(): if cid == connection_id: break
SessionOfConnection(conns, c) ==
    LET i == FirstIndex(conns, c, 1) IN IF i = 0 THEN NoId ELSE conns[i].sid

\* session_connections.get(session_id)
ConnectionOfSession(conns, sid) ==
    LET i == KeyIndex(conns, sid, 1) IN IF i = 0 THEN NoId ELSE conns[i].cid

\* variant: a second binding is added next to the first
register_session_keeps_old(conns, sid, c) == Append(conns, [sid |-> sid, cid |-> c])

\* self.session_connections[session_id] = connection_id
register_session(conns, sid, c) ==
    LET i == KeyIndex(conns, sid, 1) IN
    IF i = 0 THEN Append(conns, [sid |-> sid, cid |-> c])
    ELSE [conns EXCEPT ![i].cid = c]

\* ConnectionManager.disconnect: the session index loses the first entry of c
\* variant: closing a connection empties the session index
disconnect_sessions_clears(conns, c) == <<>>

disconnect_sessions(conns, c) ==
    LET i == FirstIndex(conns, c, 1) IN
    IF i = 0 THEN conns ELSE RemoveAt(conns, i)

\* the row handle_session_start inserts
NewWsSession ==
    [status |-> "recording", last_chunk_number |-> 0,
     total_chunks_expected |-> NoTotal, pause_count |-> 0, resume_count |-> 0]

\* the row crud.create_session inserts: status is the request's
NewHttpSession(status) ==
    [status |-> status, last_chunk_number |-> 0,
     total_chunks_expected |-> NoTotal, pause_count |-> 0, resume_count |-> 0]

\* resp: the handler that ran last (op), the session and connection it was
\* called with, the HTTP status code (0 on the WebSocket), the messages it
\* passed to send_text, and the part of the result or body the properties read
NoBody == <<>>
NoResp ==
    [op |-> "none", sid |-> NoId, conn |-> NoId, code |-> 0, sent |-> <<>>,
     body |-> NoBody]

WsResp(op, c, sid, sent) ==
    [op |-> op, sid |-> sid, conn |-> c, code |-> 0, sent |-> sent, body |-> NoBody]

HttpResp(op, sid, code) ==
    [op |-> op, sid |-> sid, conn |-> NoId, code |-> code, sent |-> <<>>,
     body |-> NoBody]

(* ------------------------------- Init --------------------------------- *)
Init ==
    /\ sessions = <<>>
    /\ chunks = <<>>
    /\ active_connections = {}
    /\ session_connections = <<>>
    /\ task = [c \in RegistryConnIds |-> "none"]
    /\ keepalive = [c \in RegistryConnIds |-> "none"]
    /\ resp = NoResp

(* ------------------------ connection lifecycle ------------------------ *)
\* websocket_endpoint up to the receive loop: accept, register, start keepalive
Connect(c) ==
    /\ task[c] = "none"
    /\ \A d \in 1..(c - 1) : task[d] # "none"
    /\ active_connections' = active_connections \cup {c}
    /\ task' = [task EXCEPT ![c] = "running"]
    /\ keepalive' = [keepalive EXCEPT ![c] = "running"]
    /\ resp' = WsResp("connect", c, NoId, <<>>)
    /\ UNCHANGED <<sessions, chunks, session_connections>>

\* variant: ending one handler cancels every keepalive task
cancel_all_keepalives(k, c) == [d \in DOMAIN k |-> IF k[d] = "none" THEN "none" ELSE "done"]

\* finally: keepalive_task.cancel(); await keepalive_task - the task created
\* by this handler, and no other
cancel_keepalive(k, c) == [k EXCEPT ![c] = "done"]

\* variant: a disconnect closes the session the connection was bound to
SessionsAfterDisconnectCompleted(tbl, conns, c) ==
    LET sid == SessionOfConnection(conns, c) IN
    IF sid \in DOMAIN tbl THEN [tbl EXCEPT ![sid].status = "completed"] ELSE tbl

\* the sessions table after manager.disconnect and the finally block: no
\* database call is made on that path
SessionsAfterDisconnect(tbl, conns, c) == tbl

\* the receive loop ends on a disconnect (WebSocketDisconnect, or the error of
\* receiving after one): manager.disconnect, then the finally block
ClientDisconnect(c) ==
    /\ task[c] = "running"
    /\ active_connections' = active_connections \ {c}
    /\ session_connections' = disconnect_sessions(session_connections, c)
    /\ task' = [task EXCEPT ![c] = "done"]
    /\ keepalive' = cancel_keepalive(keepalive, c)
    /\ sessions' = SessionsAfterDisconnect(sessions, session_connections, c)
    /\ resp' = WsResp("disconnect", c, SessionOfConnection(session_connections, c), <<>>)
    /\ UNCHANGED chunks

\* asyncio.TimeoutError on receive: a ping is sent; a failed send breaks the loop
\* (no manager.disconnect on that path), then the finally block
ReceiveTimeout(c, sendOk) ==
    /\ task[c] = "running"
    /\ task' = [task EXCEPT ![c] = IF sendOk THEN "running" ELSE "done"]
    /\ keepalive' = IF sendOk THEN keepalive ELSE cancel_keepalive(keepalive, c)
    /\ resp' = WsResp(IF sendOk THEN "timeout_ping" ELSE "timeout_break", c, NoId, <<"ping">>)
    /\ UNCHANGED <<sessions, chunks, active_connections, session_connections>>

\* one round of keepalive_ping: a failed send (or a socket no longer CONNECTED)
\* ends the keepalive loop only
KeepalivePing(c, sendOk) ==
    /\ keepalive[c] = "running"
    /\ keepalive' = [keepalive EXCEPT ![c] = IF sendOk THEN "running" ELSE "done"]
    /\ resp' = WsResp(IF sendOk THEN "keepalive_ping" ELSE "keepalive_stop", c, NoId, <<"ping">>)
    /\ UNCHANGED <<sessions, chunks, active_connections, session_connections, task>>

(* -------------------------- WebSocket handlers ------------------------ *)
\* what a handler passed to send_text: the acknowledgement, and the "error"
\* message of the except branch when that send raised
SentWithError(ack, sendOk) == IF sendOk THEN <<ack>> ELSE <<ack, "error">>
SentNoError(ack, sendOk) == <<ack>>

\* variant: session_start writes a fresh row over an existing one
SessionStartRowsReset(tbl, sid) == (sid :> NewWsSession) @@ tbl

\* variant: session_start binds without looking up or inserting the row
SessionStartRowsNone(tbl, sid) == tbl

\* if not existing_session: db.add(new_session)
SessionStartRows(tbl, sid) ==
    IF sid \in DOMAIN tbl THEN tbl ELSE tbl @@ (sid :> NewWsSession)

\* resp.body.previous is the connection the session was bound to before
handle_session_start(c, sid, sendOk) ==
    /\ task[c] = "running"
    /\ sessions' = SessionStartRows(sessions, sid)
    /\ session_connections' = register_session(session_connections, sid, c)
    /\ resp' = [WsResp("session_start", c, sid, SentWithError("session_confirmed", sendOk))
                    EXCEPT !.body = [previous |-> ConnectionOfSession(session_connections, sid)]]
    /\ UNCHANGED <<chunks, active_connections, task, keepalive>>

\* ConnectionManager.send_session_message: the message goes to the socket of
\* the connection the session is bound to, when that connection is registered;
\* resp.body.delivered is the connection whose send_text was called
send_session_message(sid) ==
    /\ LET cid == ConnectionOfSession(session_connections, sid)
           to == IF cid # NoId /\ cid \in active_connections THEN cid ELSE NoId
       IN resp' = [WsResp("session_message", NoId, sid, <<>>) EXCEPT
                       !.body = [delivered |-> to]]
    /\ UNCHANGED <<sessions, chunks, active_connections, session_connections,
                   task, keepalive>>

\* the durable effect of pause_streaming: none (the update is a comment)
PauseStreamingEffect(tbl, sid) == tbl

handle_pause_streaming(c, sid, sendOk) ==
    /\ task[c] = "running"
    /\ sessions' = PauseStreamingEffect(sessions, sid)
    /\ resp' = WsResp("pause_streaming", c, sid, SentNoError("streaming_paused", sendOk))
    /\ UNCHANGED <<chunks, active_connections, session_connections, task, keepalive>>

\* the durable effect of resume_streaming: none (the update is a comment)
ResumeStreamingEffect(tbl, sid) == tbl

handle_resume_streaming(c, sid, sendOk) ==
    /\ task[c] = "running"
    /\ sessions' = ResumeStreamingEffect(sessions, sid)
    /\ resp' = WsResp("resume_streaming", c, sid, SentNoError("streaming_resumed", sendOk))
    /\ UNCHANGED <<chunks, active_connections, session_connections, task, keepalive>>

\* session.status = "completed" when the row exists
StopStreamingEffect(tbl, sid) ==
    IF sid \in DOMAIN tbl THEN [tbl EXCEPT ![sid].status = "completed"] ELSE tbl

handle_stop_streaming(c, sid, sendOk) ==
    /\ task[c] = "running"
    /\ sessions' = StopStreamingEffect(sessions, sid)
    /\ resp' = WsResp("stop_streaming", c, sid, SentWithError("streaming_stopped", sendOk))
    /\ UNCHANGED <<chunks, active_connections, session_connections, task, keepalive>>

\* variant: the chunk takes the current counter value
NextChunkNumberSame(s) == s.last_chunk_number

\* next_chunk_number = session.last_chunk_number + 1
NextChunkNumber(s) == s.last_chunk_number + 1

\* the AudioChunk row of a successful upload
UploadedChunk(sid, n) ==
    [session_id |-> sid, chunk_number |-> n, gcs_path |-> ChunkPath(sid, n),
     upload_status |-> "uploaded", is_processed |-> TRUE, retry_count |-> 0]

\* variant: a failed upload is still flagged as processed
FailedChunkProcessed(sid, n) ==
    [session_id |-> sid, chunk_number |-> n, gcs_path |-> EmptyPath,
     upload_status |-> "failed", is_processed |-> TRUE, retry_count |-> 0]

\* the AudioChunk row of a failed upload
FailedChunk(sid, n) ==
    [session_id |-> sid, chunk_number |-> n, gcs_path |-> EmptyPath,
     upload_status |-> "failed", is_processed |-> FALSE, retry_count |-> 0]

\* session.last_chunk_number = next_chunk_number after a successful upload
AdvanceSession(s, n) == [s EXCEPT !.last_chunk_number = n]

\* variant: a failed upload gives the chunk number back by lowering the counter
SessionAfterFailureRollsBack(s, n) ==
    [s EXCEPT !.last_chunk_number = IF @ > 0 THEN @ - 1 ELSE 0]

\* the session row after a failed upload: untouched
SessionAfterFailure(s, n) == s

\* process_audio_chunk: the tables after one chunk
process_audio_chunk(tbl, ledger, sid, uploadOk) ==
    IF sid \notin DOMAIN tbl THEN [sessions |-> tbl, chunks |-> ledger]
    ELSE LET n == NextChunkNumber(tbl[sid]) IN
         IF uploadOk
         THEN [sessions |-> [tbl EXCEPT ![sid] = AdvanceSession(tbl[sid], n)],
               chunks |-> Append(ledger, UploadedChunk(sid, n))]
         ELSE [sessions |-> [tbl EXCEPT ![sid] = SessionAfterFailure(tbl[sid], n)],
               chunks |-> Append(ledger, FailedChunk(sid, n))]

\* SupabaseService.upload_audio_chunk: no client -> failure without a call; a
\* direct upload, and after a direct upload that raised one upload from a
\* temporary file; calls is the number of storage.upload calls made
upload_audio_chunk(client, o) ==
    IF ~client THEN [success |-> FALSE, calls |-> 0]
    ELSE IF o[1] = "ok" THEN [success |-> TRUE, calls |-> 1]
    ELSE IF o[1] = "error" THEN [success |-> FALSE, calls |-> 1]
    ELSE [success |-> (o[2] = "ok"), calls |-> 2]

\* variant: the frame is acknowledged only when its upload succeeded
AudioAckOnSuccessOnly(uploadOk) == IF uploadOk THEN <<"audio_received">> ELSE <<>>

\* the messages handle_audio_data sends for a frame on a bound connection
AudioAck(uploadOk) == <<"audio_received">>

\* client: supabase_service.supabase is set; o: the storage client's answers;
\* resp.body keeps both, the result and the number of storage calls
handle_audio_data(c, client, o, sendOk) ==
    /\ task[c] = "running"
    /\ LET sid == SessionOfConnection(session_connections, c)
           up == upload_audio_chunk(client, o)
           uploadOk == up.success
       IN
       IF sid = NoId
       THEN /\ resp' = WsResp("audio_unbound", c, NoId, <<>>)
            /\ UNCHANGED <<sessions, chunks>>
       ELSE /\ Len(chunks) < MaxChunks
            /\ sid \in DOMAIN sessions => sessions[sid].last_chunk_number < MaxChunkNo
            /\ LET r == process_audio_chunk(sessions, chunks, sid, uploadOk) IN
               /\ sessions' = r.sessions
               /\ chunks' = r.chunks
            /\ resp' = [WsResp("audio", c, sid, AudioAck(uploadOk)) EXCEPT
                            !.body = [uploaded |-> uploadOk, client |-> client,
                                      store |-> o, calls |-> up.calls]]
    /\ UNCHANGED <<active_connections, session_connections, task, keepalive>>

(* ---------------------------- crud helpers ---------------------------- *)
\* crud.update_session_status: status plus the keyword columns given
\* (lcn / total = Absent when the keyword is not passed)
crud_update_session_status(s, status, lcn, total) ==
    [s EXCEPT !.status = status,
              !.last_chunk_number = IF lcn = Absent THEN @ ELSE lcn,
              !.total_chunks_expected = IF total = Absent THEN @ ELSE total]

\* crud.create_audio_chunk: the row of an out-of-band upload
NotifiedChunk(sid, n, path) ==
    [session_id |-> sid, chunk_number |-> n, gcs_path |-> path,
     upload_status |-> "uploaded", is_processed |-> FALSE, retry_count |-> 0]

\* crud.pause_session
crud_pause_session(s) ==
    [s EXCEPT !.status = "paused", !.pause_count = @ + 1]

\* variant: crud.resume_session without the resume_count increment
crud_resume_session_no_count(s) ==
    IF s.status = "paused" THEN [s EXCEPT !.status = "recording"] ELSE s

\* crud.resume_session: only a paused row changes
crud_resume_session(s) ==
    IF s.status = "paused"
    THEN [s EXCEPT !.status = "recording", !.resume_count = @ + 1]
    ELSE s

\* variant: every chunk row of the session counts, whatever its status
AllRowsUploaded(ledger, sid) == {i \in 1..Len(ledger) : ledger[i].session_id = sid}

\* [c.chunk_number for c in chunks if c.upload_status == "uploaded"]
UploadedRows(ledger, sid) ==
    {i \in 1..Len(ledger) : /\ ledger[i].session_id = sid
                            /\ ledger[i].upload_status = "uploaded"}

UploadedNumbers(ledger, sid) == {ledger[i].chunk_number : i \in UploadedRows(ledger, sid)}

RECURSIVE SortedSeq(_)
\* sorted(list(S)) of a set of integers
SortedSeq(S) ==
    IF S = {} THEN <<>>
    ELSE LET m == CHOOSE x \in S : \A y \in S : x <= y
         IN <<m>> \o SortedSeq(S \ {m})

\* if session.total_chunks_expected: (None and 0 are falsy)
TotalIsSet(s) == s.total_chunks_expected # NoTotal /\ s.total_chunks_expected # 0

\* sorted(set(range(1, total + 1)) - set(uploaded_chunks)), [] without a total
missing_chunks(s, ledger, sid) ==
    IF TotalIsSet(s)
    THEN SortedSeq((1..s.total_chunks_expected) \ UploadedNumbers(ledger, sid))
    ELSE <<>>

\* len(uploaded_chunks) / total * 100, 0 without a total; kept as the integer
\* part, which is 100 exactly when the float is in [100, 101)
progress_percentage(s, ledger, sid) ==
    IF TotalIsSet(s)
    THEN (Cardinality(UploadedRows(ledger, sid)) * 100) \div s.total_chunks_expected
    ELSE 0

\* crud.get_session_progress with the fields the progress route adds
get_session_progress(s, ledger, sid) ==
    [chunksUploaded |-> Cardinality(UploadedRows(ledger, sid)),
     totalChunksExpected |-> s.total_chunks_expected,
     progressPercentage |-> progress_percentage(s, ledger, sid),
     lastChunkNumber |-> s.last_chunk_number,
     missingChunks |-> missing_chunks(s, ledger, sid),
     isComplete |-> (s.status = "processing")]

\* crud.update_chunk_status: the first row of (session, number) is updated
RECURSIVE ChunkIndex(_, _, _, _)
ChunkIndex(ledger, sid, n, i) ==
    IF i > Len(ledger) THEN 0
    ELSE IF ledger[i].session_id = sid /\ ledger[i].chunk_number = n THEN i
    ELSE ChunkIndex(ledger, sid, n, i + 1)

crud_update_chunk_status(ledger, sid, n, status, retries) ==
    LET i == ChunkIndex(ledger, sid, n, 1) IN
    IF i = 0 THEN ledger
    ELSE [ledger EXCEPT ![i].upload_status = status, ![i].retry_count = retries]

(* ---------------------------- HTTP endpoints -------------------------- *)
\* POST /v1/upload-session
start_recording_session(sid, status, patientOk) ==
    /\ sid \notin DOMAIN sessions
    /\ IF ~patientOk
       THEN /\ resp' = HttpResp("create", NoId, 404)
            /\ UNCHANGED sessions
       ELSE /\ sessions' = sessions @@ (sid :> NewHttpSession(status))
            /\ resp' = HttpResp("create", sid, 200)
    /\ UNCHANGED <<chunks, active_connections, session_connections, task, keepalive>>

\* the first update of notify_chunk_uploaded
NotifyFirstUpdate(s, n, isLast, total) ==
    crud_update_session_status(s, "recording", n, IF isLast THEN total ELSE NoTotal)

\* variant: the chunk flagged last closes the session
NotifyLastUpdateCompletes(s) == crud_update_session_status(s, "completed", Absent, Absent)

\* the update of notify_chunk_uploaded for the chunk flagged last
NotifyLastUpdate(s) == crud_update_session_status(s, "processing", Absent, Absent)

\* POST /v1/notify-chunk-uploaded
notify_chunk_uploaded(sid, n, isLast, total, path) ==
    /\ IF sid \notin DOMAIN sessions
       THEN /\ resp' = HttpResp("notify", sid, 404)
            /\ UNCHANGED <<sessions, chunks>>
       ELSE /\ Len(chunks) < MaxChunks
            /\ LET s1 == NotifyFirstUpdate(sessions[sid], n, isLast, total)
                   s2 == IF isLast THEN NotifyLastUpdate(s1) ELSE s1
               IN sessions' = [sessions EXCEPT ![sid] = s2]
            /\ chunks' = Append(chunks, NotifiedChunk(sid, n, path))
            /\ resp' = [HttpResp("notify", sid, 200) EXCEPT !.body = [chunkNumber |-> n]]
    /\ UNCHANGED <<active_connections, session_connections, task, keepalive>>

\* variant: the pause route without its status check
PauseAlwaysAllowed(s) == TRUE

\* the guard of the pause route: only a recording session is paused
PauseAllowed(s) == s.status = "recording"

\* POST /v1/session/pause
pause_session(sid) ==
    /\ IF sid \notin DOMAIN sessions
       THEN /\ resp' = HttpResp("pause", sid, 404)
            /\ UNCHANGED sessions
       ELSE IF ~PauseAllowed(sessions[sid])
       THEN /\ resp' = HttpResp("pause", sid, 400)
            /\ UNCHANGED sessions
       ELSE /\ sessions[sid].pause_count < MaxCount
            /\ sessions' = [sessions EXCEPT ![sid] = crud_pause_session(@)]
            /\ resp' = HttpResp("pause", sid, 200)
    /\ UNCHANGED <<chunks, active_connections, session_connections, task, keepalive>>

\* the guard of the resume route before crud.resume_session
ResumeWanted(s) == s.status = "paused"

\* POST /v1/session/resume: 404, 403 (another user's session), else the
\* resume response, after resuming a paused session
resume_session(sid, userOk) ==
    /\ IF sid \notin DOMAIN sessions
       THEN /\ resp' = HttpResp("resume", sid, 404)
            /\ UNCHANGED sessions
       ELSE IF ~userOk
       THEN /\ resp' = HttpResp("resume", sid, 403)
            /\ UNCHANGED sessions
       ELSE /\ sessions[sid].status = "paused" => sessions[sid].resume_count < MaxCount
            /\ sessions' = IF ResumeWanted(sessions[sid])
                           THEN [sessions EXCEPT ![sid] = crud_resume_session(@)]
                           ELSE sessions
            /\ resp' = [HttpResp("resume", sid, 200) EXCEPT
                            !.body = [resumed |-> ResumeWanted(sessions[sid])]]
    /\ UNCHANGED <<chunks, active_connections, session_connections, task, keepalive>>

\* GET /v1/session/{id}/progress
get_progress(sid) ==
    /\ IF sid \notin DOMAIN sessions
       THEN resp' = HttpResp("progress", sid, 404)
       ELSE resp' = [HttpResp("progress", sid, 200) EXCEPT
                        !.body = get_session_progress(sessions[sid], chunks, sid)]
    /\ UNCHANGED <<sessions, chunks, active_connections, session_connections,
                   task, keepalive>>

\* POST /v1/session/{id}/retry-chunk
retry_chunk_upload(sid, n) ==
    /\ IF sid \notin DOMAIN sessions
       THEN /\ resp' = HttpResp("retry", sid, 404)
            /\ UNCHANGED chunks
       ELSE /\ chunks' = crud_update_chunk_status(chunks, sid, n, "retrying", 1)
            /\ resp' = HttpResp("retry", sid, 200)
    /\ UNCHANGED <<sessions, active_connections, session_connections, task, keepalive>>

\* PUT /v1/session/{id}/status: lastChunkNumber / totalChunksExpected are
\* written when not None
update_session_status(sid, status, lcn, total) ==
    /\ IF sid \notin DOMAIN sessions
       THEN /\ resp' = HttpResp("put_status", sid, 404)
            /\ UNCHANGED sessions
       ELSE /\ sessions' = [sessions EXCEPT ![sid] =
                    crud_update_session_status(@, status,
                        IF lcn = NoTotal THEN Absent ELSE lcn,
                        IF total = NoTotal THEN Absent ELSE total)]
            /\ resp' = HttpResp("put_status", sid, 200)
    /\ UNCHANGED <<chunks, active_connections, session_connections, task, keepalive>>

\* PATCH /v1/session/{id}: status and totalChunks default to the row's values
\* when the body has no such key; a null totalChunks is written as None
patch_session_status(sid, status, total) ==
    /\ IF sid \notin DOMAIN sessions
       THEN /\ resp' = HttpResp("patch_status", sid, 404)
            /\ UNCHANGED sessions
       ELSE /\ sessions' = [sessions EXCEPT ![sid] =
                    crud_update_session_status(@,
                        IF status = "absent" THEN @.status ELSE status,
                        Absent,
                        IF total = Absent THEN @.total_chunks_expected ELSE total)]
            /\ resp' = HttpResp("patch_status", sid, 200)
    /\ UNCHANGED <<chunks, active_connections, session_connections, task, keepalive>>

(* ------------------------- object store routes ------------------------ *)
\* SupabaseService.generate_presigned_url: the mock location without a client
\* or when the client raises, the direct upload URL otherwise
generate_presigned_url(client, a, path) ==
    IF ~client \/ a = "raise"
    THEN [success |-> TRUE, mock |-> TRUE, path |-> path]
    ELSE [success |-> TRUE, mock |-> FALSE, path |-> path]

\* the chunk numbers of the objects stored under sessions/{sid}/
StoredNumbers(ledger, sid) ==
    {ledger[i].chunk_number : i \in {j \in 1..Len(ledger) :
                                        ledger[j].gcs_path = ChunkPath(sid, ledger[j].chunk_number)}}

\* SupabaseService.get_session_audio_chunks: [] without a client or when the
\* client raises, the chunk files of the session by number otherwise
get_session_audio_chunks(client, a, ledger, sid) ==
    IF ~client \/ a = "raise" THEN <<>> ELSE SortedSeq(StoredNumbers(ledger, sid))

\* POST /v1/get-presigned-url
get_presigned_url(sid, n, client, a) ==
    /\ IF sid \notin DOMAIN sessions
       THEN resp' = HttpResp("presign", sid, 404)
       ELSE LET r == generate_presigned_url(client, a, ChunkPath(sid, n)) IN
            resp' = [HttpResp("presign", sid, IF r.success THEN 200 ELSE 500) EXCEPT
                        !.body = [client |-> client, result |-> r]]
    /\ UNCHANGED <<sessions, chunks, active_connections, session_connections,
                   task, keepalive>>

\* GET /v1/session/{id}/audio
get_session_audio(sid, client, a) ==
    /\ IF sid \notin DOMAIN sessions
       THEN resp' = HttpResp("audio_list", sid, 404)
       ELSE resp' = [HttpResp("audio_list", sid, 200) EXCEPT
                        !.body = [client |-> client,
                                  storage |-> get_session_audio_chunks(client, a, chunks, sid)]]
    /\ UNCHANGED <<sessions, chunks, active_connections, session_connections,
                   task, keepalive>>

(* -------------------------------- Next -------------------------------- *)
\* the WebSocket path
NextStream ==
    \/ \E c \in ConnIds : Connect(c)
    \/ \E c \in ConnIds : ClientDisconnect(c)
    \/ \E c \in ConnIds, sendOk \in BOOLEAN : ReceiveTimeout(c, sendOk)
    \/ \E c \in ConnIds, sendOk \in BOOLEAN : KeepalivePing(c, sendOk)
    \/ \E c \in ConnIds, sid \in SessionIds, sendOk \in BOOLEAN :
          handle_session_start(c, sid, sendOk)
    \/ \E c \in ConnIds, sid \in SessionIds, sendOk \in BOOLEAN :
          handle_pause_streaming(c, sid, sendOk)
    \/ \E c \in ConnIds, sid \in SessionIds, sendOk \in BOOLEAN :
          handle_resume_streaming(c, sid, sendOk)
    \/ \E c \in ConnIds, sid \in SessionIds, sendOk \in BOOLEAN :
          handle_stop_streaming(c, sid, sendOk)
    \/ \E c \in ConnIds, a \in {"ok", "error"}, sendOk \in BOOLEAN :
          handle_audio_data(c, TRUE, Steady(a), sendOk)
    \/ \E sid \in SessionIds : get_progress(sid)

\* the out-of-band HTTP path
NextHttp ==
    \/ \E sid \in SessionIds, status \in Statuses, patientOk \in BOOLEAN :
          start_recording_session(sid, status, patientOk)
    \/ \E sid \in SessionIds, n \in ChunkNos, isLast \in BOOLEAN, total \in ChunkNos,
          pathGiven \in BOOLEAN :
          notify_chunk_uploaded(sid, n, isLast, total,
                                IF pathGiven THEN ChunkPath(sid, n) ELSE EmptyPath)
    \/ \E sid \in SessionIds : pause_session(sid)
    \/ \E sid \in SessionIds, userOk \in BOOLEAN : resume_session(sid, userOk)
    \/ \E sid \in SessionIds : get_progress(sid)
    \/ \E sid \in SessionIds, n \in ChunkNos : retry_chunk_upload(sid, n)
    \/ \E sid \in SessionIds, status \in Statuses,
          lcn \in {NoTotal} \cup (0..MaxChunkNo), total \in {NoTotal} \cup ChunkNos :
          update_session_status(sid, status, lcn, total)
    \/ \E sid \in SessionIds, status \in Statuses \cup {"absent"},
          total \in {Absent, NoTotal} \cup ChunkNos :
          patch_session_status(sid, status, total)

\* the HTTP requests that move a session through its statuses, with bodies
\* that carry a status only
NextLifecycle ==
    \/ \E sid \in SessionIds, status \in Statuses, patientOk \in BOOLEAN :
          start_recording_session(sid, status, patientOk)
    \/ \E sid \in SessionIds : pause_session(sid)
    \/ \E sid \in SessionIds, userOk \in BOOLEAN : resume_session(sid, userOk)
    \/ \E sid \in SessionIds, status \in Statuses :
          update_session_status(sid, status, NoTotal, NoTotal)
    \/ \E sid \in SessionIds, status \in Statuses \cup {"absent"} :
          patch_session_status(sid, status, Absent)
    \/ \E sid \in SessionIds : get_progress(sid)

\* the connection registry: sockets open and close, sessions are bound and
\* session-addressed messages are sent
NextRegistry ==
    \/ \E c \in RegistryConnIds : Connect(c)
    \/ \E c \in RegistryConnIds : ClientDisconnect(c)
    \/ \E c \in RegistryConnIds, sendOk \in BOOLEAN : ReceiveTimeout(c, sendOk)
    \/ \E c \in RegistryConnIds, sendOk \in BOOLEAN : KeepalivePing(c, sendOk)
    \/ \E c \in RegistryConnIds, sid \in SessionIds, sendOk \in BOOLEAN :
          handle_session_start(c, sid, sendOk)
    \/ \E sid \in SessionIds : send_session_message(sid)

\* chunk uploads only, on both paths, for sessions created on either path
NextUpload ==
    \/ \E sid \in SessionIds, status \in Statuses :
          start_recording_session(sid, status, TRUE)
    \/ \E c \in ConnIds : Connect(c)
    \/ \E c \in ConnIds, sid \in SessionIds :
          handle_session_start(c, sid, TRUE)
    \/ \E c \in ConnIds, a \in {"ok", "error"} :
          handle_audio_data(c, TRUE, Steady(a), TRUE)
    \/ \E sid \in SessionIds, n \in ChunkNos, isLast \in BOOLEAN :
          notify_chunk_uploaded(sid, n, isLast, n, ChunkPath(sid, n))

\* the object store adapter: frames uploaded through a storage client of any
\* behaviour, configured or not, and the presign and listing routes
NextStore ==
    \/ \E c \in ConnIds : Connect(c)
    \/ \E c \in ConnIds, sid \in SessionIds : handle_session_start(c, sid, TRUE)
    \/ \E c \in ConnIds, client \in BOOLEAN, o \in StoreBehaviours :
          handle_audio_data(c, client, o, TRUE)
    \/ \E sid \in SessionIds, n \in ChunkNos, client \in BOOLEAN, a \in StoreAnswers :
          get_presigned_url(sid, n, client, a)
    \/ \E sid \in SessionIds, client \in BOOLEAN, a \in StoreAnswers :
          get_session_audio(sid, client, a)

\* a session streamed over successive connections
NextReconnect ==
    \/ \E c \in RegistryConnIds : Connect(c)
    \/ \E c \in RegistryConnIds : ClientDisconnect(c)
    \/ \E c \in RegistryConnIds, sid \in SessionIds : handle_session_start(c, sid, TRUE)
    \/ \E c \in RegistryConnIds, a \in {"ok", "error"} :
          handle_audio_data(c, TRUE, Steady(a), TRUE)

\* the progress of a session whose chunks arrive on both paths
NextProgress ==
    \/ \E c \in ConnIds : Connect(c)
    \/ \E c \in ConnIds, sid \in SessionIds : handle_session_start(c, sid, TRUE)
    \/ \E c \in ConnIds, a \in {"ok", "error"} :
          handle_audio_data(c, TRUE, Steady(a), TRUE)
    \/ \E sid \in SessionIds, n \in ChunkNos, isLast \in BOOLEAN, total \in ChunkNos :
          notify_chunk_uploaded(sid, n, isLast, total, ChunkPath(sid, n))
    \/ \E sid \in SessionIds, n \in ChunkNos : retry_chunk_upload(sid, n)
    \/ \E sid \in SessionIds : get_progress(sid)

\* the registry with several sessions per connection, and the frames routed
\* through it
NextBindings ==
    \/ \E c \in RegistryConnIds : Connect(c)
    \/ \E c \in RegistryConnIds : ClientDisconnect(c)
    \/ \E c \in RegistryConnIds, sid \in RegistrySessionIds :
          handle_session_start(c, sid, TRUE)
    \/ \E c \in RegistryConnIds, a \in {"ok", "error"} :
          handle_audio_data(c, TRUE, Steady(a), TRUE)

\* frames numbered from a counter that status updates also write
NextCounter ==
    \/ \E c \in ConnIds : Connect(c)
    \/ \E c \in ConnIds, sid \in SessionIds : handle_session_start(c, sid, TRUE)
    \/ \E c \in ConnIds, a \in {"ok", "error"} :
          handle_audio_data(c, TRUE, Steady(a), TRUE)
    \/ \E sid \in SessionIds, status \in Statuses, lcn \in {NoTotal} \cup (0..MaxChunkNo) :
          update_session_status(sid, status, lcn, NoTotal)

\* crud.get_session_progress as a function of the tables: the progress route
\* applied to any session row and any ledger
NextProgressQuery == \E sid \in SessionIds : get_progress(sid)

\* a chunk row in one of the statuses the handlers write
LedgerRow(sid, n, status) ==
    [session_id |-> sid, chunk_number |-> n,
     gcs_path |-> IF status = "failed" THEN EmptyPath ELSE ChunkPath(sid, n),
     upload_status |-> status, is_processed |-> FALSE, retry_count |-> 0]

LedgerRows ==
    {LedgerRow(sid, n, status) :
        sid \in SessionIds, n \in ChunkNos, status \in {"uploaded", "failed", "retrying"}}

\* the tables the progress query is applied to: every ledger of up to MaxChunks
\* rows, every total (None, 0 and the chunk totals) on each session
InitProgressQuery ==
    /\ sessions \in [SessionIds ->
          {[NewWsSession EXCEPT !.total_chunks_expected = total] :
              total \in {NoTotal} \cup (0..MaxChunkNo)}]
    /\ chunks \in UNION {[1..k -> LedgerRows] : k \in 0..MaxChunks}
    /\ active_connections = {}
    /\ session_connections = <<>>
    /\ task = [c \in RegistryConnIds |-> "none"]
    /\ keepalive = [c \in RegistryConnIds |-> "none"]
    /\ resp = NoResp

Next ==
    NextStream \/ NextHttp \/ NextRegistry \/ NextUpload \/ NextStore
        \/ NextReconnect \/ NextProgress \/ NextBindings \/ NextCounter

Spec == Init /\ [][Next]_vars
SpecStream == Init /\ [][NextStream]_vars
SpecHttp == Init /\ [][NextHttp]_vars
SpecLifecycle == Init /\ [][NextLifecycle]_vars
SpecRegistry == Init /\ [][NextRegistry]_vars
SpecUpload == Init /\ [][NextUpload]_vars
SpecStore == Init /\ [][NextStore]_vars
SpecReconnect == Init /\ [][NextReconnect]_vars
SpecProgress == Init /\ [][NextProgress]_vars
SpecBindings == Init /\ [][NextBindings]_vars
SpecCounter == Init /\ [][NextCounter]_vars
SpecProgressQuery == InitProgressQuery /\ [][NextProgressQuery]_vars

(* ============================ properties ============================== *)
Existing == DOMAIN sessions

\* the step just taken was handler op on the existing session sid
Handled(op, sid) == resp'.op = op /\ resp'.sid = sid /\ sid \in Existing

RECURSIVE CountOf(_, _)
\* how many times m occurs in the sequence s
CountOf(s, m) ==
    IF s = <<>> THEN 0
    ELSE (IF Head(s) = m THEN 1 ELSE 0) + CountOf(Tail(s), m)

HasRow(sid, status) ==
    \E i \in 1..Len(chunks) : chunks[i].session_id = sid /\ chunks[i].upload_status = status

(* C1: across binary chunk payloads handled on a bound connection, a       *)
(* session's last_chunk_number never decreases, whether the upload         *)
(* succeeded or failed.                                                    *)
C1_PayloadNeverLowersLastChunk ==
    [][\A sid \in Existing :
          resp'.op = "audio" =>
              /\ sid \in DOMAIN sessions'
              /\ sessions'[sid].last_chunk_number >= sessions[sid].last_chunk_number]_vars

\* a payload has just been handled after a failed and a successful upload
C1_Witness ==
    /\ resp.op = "audio"
    /\ HasRow(resp.sid, "failed")
    /\ HasRow(resp.sid, "uploaded")
    /\ sessions[resp.sid].last_chunk_number >= 1

(* C2: last_chunk_number of a session is non-decreasing under every        *)
(* operation that writes it (payloads, chunk notifications in any order,   *)
(* status updates).                                                        *)
C2_LastChunkNeverDecreases ==
    [][\A sid \in Existing :
          sessions'[sid].last_chunk_number >= sessions[sid].last_chunk_number]_vars

(* C3: once total_chunks_expected of a session is set, no later operation  *)
(* changes or clears it.                                                   *)
C3_TotalImmutableOnceSet ==
    [][\A sid \in Existing :
          sessions[sid].total_chunks_expected # NoTotal =>
              sessions'[sid].total_chunks_expected = sessions[sid].total_chunks_expected]_vars

\* the edges of the session state machine
Edges ==
    {<<"recording", "paused">>, <<"paused", "recording">>,
     <<"recording", "processing">>, <<"processing", "completed">>}

(* C4: a session's status changes only along recording->paused,            *)
(* paused->recording, recording->processing, processing->completed.        *)
C4_StatusFollowsEdges ==
    [][\A sid \in Existing :
          \/ sessions'[sid].status = sessions[sid].status
          \/ <<sessions[sid].status, sessions'[sid].status>> \in Edges]_vars

(* C5: every session, created by the session-create call or by the first   *)
(* session_start, starts with status recording and last_chunk_number 0,    *)
(* whatever status the client supplied.                                    *)
C5_CreatedRecordingAtZero ==
    [][\A sid \in DOMAIN sessions' \ Existing :
          /\ sessions'[sid].status = "recording"
          /\ sessions'[sid].last_chunk_number = 0]_vars

(* C6: a pause request for a session whose status is not recording fails   *)
(* with an error and leaves status and pause_count unchanged.              *)
C6_PauseRejectedUnlessRecording ==
    [][\A sid \in Existing :
          (Handled("pause", sid) /\ sessions[sid].status # "recording") =>
              /\ resp'.code = 400
              /\ sessions'[sid].status = sessions[sid].status
              /\ sessions'[sid].pause_count = sessions[sid].pause_count]_vars

\* a pause request on a processing session has just been refused
C6_Witness ==
    /\ resp.op = "pause"
    /\ resp.code = 400
    /\ resp.sid \in Existing
    /\ sessions[resp.sid].status = "processing"

(* C7 as stated: a resume request for a session that is not paused is      *)
(* rejected with an error, leaving status and resume_count unchanged.      *)
C7_ResumeRejectedUnlessPaused ==
    [][\A sid \in Existing :
          (Handled("resume", sid) /\ sessions[sid].status # "paused") =>
              /\ resp'.code >= 400
              /\ sessions'[sid].status = sessions[sid].status
              /\ sessions'[sid].resume_count = sessions[sid].resume_count]_vars

(* C7 amended: a resume request for a session that is not paused leaves    *)
(* status and resume_count unchanged and is answered 200 (403 for another  *)
(* user's session), not rejected; a resume request changes a session only  *)
(* when it is paused and then moves it to recording with resume_count      *)
(* incremented by exactly one.                                             *)
C7_ResumeOnlyMovesPaused ==
    [][\A sid \in Existing :
          Handled("resume", sid) =>
              /\ resp'.code \in {200, 403}
              /\ sessions[sid].status # "paused" => sessions'[sid] = sessions[sid]
              /\ (sessions[sid].status = "paused" /\ resp'.code = 200) =>
                     /\ sessions'[sid].status = "recording"
                     /\ sessions'[sid].resume_count = sessions[sid].resume_count + 1
              /\ (sessions[sid].status = "paused" /\ resp'.code = 403) =>
                     sessions'[sid] = sessions[sid]]_vars

\* a paused session has just been resumed
C7_Witness ==
    /\ resp.op = "resume"
    /\ resp.code = 200
    /\ resp.body.resumed
    /\ sessions[resp.sid].status = "recording"
    /\ sessions[resp.sid].resume_count = 1

(* C8: an acknowledged pause_streaming for a recording session leaves the  *)
(* durable status paused with pause_count one higher, and an acknowledged  *)
(* resume_streaming for a paused session leaves it recording with          *)
(* resume_count one higher.                                                *)
C8_ControlMessagesDriveStatus ==
    [][\A sid \in Existing :
          /\ (Handled("pause_streaming", sid) /\ sessions[sid].status = "recording") =>
                 /\ sessions'[sid].status = "paused"
                 /\ sessions'[sid].pause_count = sessions[sid].pause_count + 1
          /\ (Handled("resume_streaming", sid) /\ sessions[sid].status = "paused") =>
                 /\ sessions'[sid].status = "recording"
                 /\ sessions'[sid].resume_count = sessions[sid].resume_count + 1]_vars

\* the acknowledgement kind of each control message and of a binary frame
AckOf(op) ==
    CASE op = "pause_streaming" -> "streaming_paused"
      [] op = "resume_streaming" -> "streaming_resumed"
      [] op = "stop_streaming" -> "streaming_stopped"
      [] op = "audio" -> "audio_received"

AckKinds == {"streaming_paused", "streaming_resumed", "streaming_stopped", "audio_received"}

(* C9: each pause_streaming, resume_streaming and stop_streaming message,  *)
(* and each binary frame on a connection bound to a session, makes its     *)
(* handler send exactly one acknowledgement, of the matching kind, on the  *)
(* connection the message came in on, whether the upload succeeded or not. *)
C9_ExactlyOneMatchingAck ==
    resp.op \in {"pause_streaming", "resume_streaming", "stop_streaming", "audio"} =>
        /\ CountOf(resp.sent, AckOf(resp.op)) = 1
        /\ \A k \in AckKinds \ {AckOf(resp.op)} : CountOf(resp.sent, k) = 0
        /\ resp.conn \in ConnIds

\* a binary frame whose upload failed has just been acknowledged
C9_Witness ==
    /\ resp.op = "audio"
    /\ ~resp.body.uploaded
    /\ resp.sent = <<"audio_received">>

(* C10: for a recording session whose chunks 1..n are all uploaded, the    *)
(* final-chunk signal stop_streaming moves it to processing with           *)
(* total_chunks_expected = n, after which the progress is 100 with no      *)
(* missing chunk.                                                          *)
C10_StopAfterAllChunks ==
    [][\A sid \in Existing :
          LET n == sessions[sid].last_chunk_number IN
          (/\ Handled("stop_streaming", sid)
           /\ sessions[sid].status = "recording"
           /\ n >= 1
           /\ UploadedNumbers(chunks, sid) = 1..n
           /\ Cardinality(UploadedRows(chunks, sid)) = n) =>
              /\ sessions'[sid].status = "processing"
              /\ sessions'[sid].total_chunks_expected = n
              /\ progress_percentage(sessions'[sid], chunks', sid) = 100
              /\ missing_chunks(sessions'[sid], chunks', sid) = <<>>]_vars

\* the row appended last to the chunk ledger
LastRow(ledger) == ledger[Len(ledger)]

\* the step appended exactly one row to the ledger and kept the others
OneRowAdded == Len(chunks') = Len(chunks) + 1 /\ SubSeq(chunks', 1, Len(chunks)) = chunks

(* C11: chunk uploads alone - binary frames on a bound connection and      *)
(* chunk-uploaded notifications, the one flagged last included - never     *)
(* move a session's status to completed.                                   *)
C11_UploadsNeverComplete ==
    [][\A sid \in Existing :
          sessions'[sid].status = "completed" => sessions[sid].status = "completed"]_vars

\* a payload was uploaded over the socket and the notification flagged last
\* has just been handled: the session is processing
C11_Witness ==
    /\ resp.op = "notify"
    /\ resp.code = 200
    /\ sessions[resp.sid].status = "processing"
    /\ \E i \in 1..Len(chunks) : chunks[i].session_id = resp.sid /\ chunks[i].is_processed

(* C12: a chunk that arrives, as a binary frame or as a notification, for  *)
(* a completed session is recorded in the ledger and the session is still  *)
(* completed afterwards.                                                   *)
C12_ChunkAfterCompletedKeepsStatus ==
    [][\A sid \in Existing :
          ((Handled("audio", sid) \/ (Handled("notify", sid) /\ resp'.code = 200))
             /\ sessions[sid].status = "completed") =>
              /\ OneRowAdded
              /\ LastRow(chunks').session_id = sid
              /\ sessions'[sid].status = "completed"]_vars

\* session_connections is a dict: one entry per session id
OneBindingPerSession(conns) ==
    \A i, j \in 1..Len(conns) : conns[i].sid = conns[j].sid => i = j

(* C13: a session has at most one bound connection; session_start from a   *)
(* connection binds the session to it, replacing an earlier binding, so    *)
(* that resolving the session yields the new connection, and a session     *)
(* message is delivered to no connection but the one the session resolves  *)
(* to, even while the earlier connection is still open.                    *)
C13_RebindReplacesBinding ==
    /\ []OneBindingPerSession(session_connections)
    /\ [][/\ resp'.op = "session_start" =>
                /\ ConnectionOfSession(session_connections', resp'.sid) = resp'.conn
                /\ OneBindingPerSession(session_connections')
          /\ resp'.op = "session_message" =>
                resp'.body.delivered \in
                    {NoId, ConnectionOfSession(session_connections, resp'.sid)}]_vars

\* a session bound to an open connection has just been bound to another one
C13_Witness ==
    /\ resp.op = "session_start"
    /\ resp.body.previous # NoId
    /\ resp.body.previous # resp.conn
    /\ resp.body.previous \in active_connections
    /\ task[resp.body.previous] = "running"
    /\ ConnectionOfSession(session_connections, resp.sid) = resp.conn

(* C14: whenever a connection's handler task has terminated (disconnect,   *)
(* receive error, failed probe after a receive timeout), its connection id *)
(* is not in the registry's connection map and no session is bound to it.  *)
C14_TerminatedHandlerUnregistered ==
    \A c \in RegistryConnIds :
        task[c] = "done" =>
            /\ c \notin active_connections
            /\ SessionOfConnection(session_connections, c) = NoId

(* C15: closing or losing a connection changes no durable state: every     *)
(* session row and every chunk row is as it was before.                    *)
C15_DisconnectKeepsDurableState ==
    [][resp'.op \in {"disconnect", "timeout_break"} =>
          /\ sessions' = sessions
          /\ chunks' = chunks]_vars

\* the connection of a session with uploaded chunks has just disconnected
C15_Witness ==
    /\ resp.op = "disconnect"
    /\ resp.sid \in Existing
    /\ sessions[resp.sid].last_chunk_number >= 1
    /\ Len(chunks) >= 1

(* C16: session_start naming a session that already has a row creates no   *)
(* second row and leaves the row unchanged, and still binds the sending    *)
(* connection to the session.                                              *)
C16_SessionStartIdempotent ==
    [][\A sid \in Existing :
          Handled("session_start", sid) =>
              /\ sessions' = sessions
              /\ chunks' = chunks
              /\ ConnectionOfSession(session_connections', sid) = resp'.conn]_vars

\* session_start has just been handled for a session that already had chunks
C16_Witness ==
    /\ resp.op = "session_start"
    /\ resp.sid \in Existing
    /\ sessions[resp.sid].last_chunk_number >= 1
    /\ ConnectionOfSession(session_connections, resp.sid) = resp.conn

(* C17: a chunk payload on a bound connection whose upload succeeds adds   *)
(* exactly one chunk row, numbered last_chunk_number + 1, uploaded,        *)
(* processed and with a non-empty path, and last_chunk_number becomes that *)
(* number.                                                                 *)
C17_SuccessfulPayloadAdvances ==
    [][\A sid \in Existing :
          (Handled("audio", sid) /\ resp'.body.uploaded) =>
              /\ OneRowAdded
              /\ LastRow(chunks').session_id = sid
              /\ LastRow(chunks').chunk_number = sessions[sid].last_chunk_number + 1
              /\ LastRow(chunks').upload_status = "uploaded"
              /\ LastRow(chunks').is_processed
              /\ LastRow(chunks').gcs_path # EmptyPath
              /\ sessions'[sid].last_chunk_number = sessions[sid].last_chunk_number + 1]_vars

\* the second payload of a session has just been uploaded as chunk 2
C17_Witness ==
    /\ resp.op = "audio"
    /\ resp.body.uploaded
    /\ Len(chunks) >= 2
    /\ LastRow(chunks).chunk_number = 2
    /\ sessions[resp.sid].last_chunk_number = 2

(* C18: a chunk payload whose upload fails leaves a chunk row failed and   *)
(* not processed, does not advance last_chunk_number and leaves the        *)
(* session's status as it was.                                             *)
C18_FailedPayloadLeavesSession ==
    [][\A sid \in Existing :
          (Handled("audio", sid) /\ ~resp'.body.uploaded) =>
              /\ OneRowAdded
              /\ LastRow(chunks').session_id = sid
              /\ LastRow(chunks').upload_status = "failed"
              /\ ~LastRow(chunks').is_processed
              /\ sessions'[sid].last_chunk_number = sessions[sid].last_chunk_number
              /\ sessions'[sid].status = sessions[sid].status]_vars

\* a payload has just failed on a session that had already lost one
C18_Witness ==
    /\ resp.op = "audio"
    /\ ~resp.body.uploaded
    /\ Len(chunks) = 2
    /\ chunks[1].upload_status = "failed"
    /\ chunks[2].upload_status = "failed"
    /\ sessions[resp.sid].status = "recording"

(* C19: no two chunk rows of the same session carry the same chunk number. *)
C19_ChunkNumbersUnique ==
    \A i, j \in 1..Len(chunks) :
        (chunks[i].session_id = chunks[j].session_id
           /\ chunks[i].chunk_number = chunks[j].chunk_number) => i = j

(* C20: every chunk row whose upload_status is uploaded has a non-empty    *)
(* path, whichever path wrote it.                                          *)
C20_UploadedHasLocator ==
    \A i \in 1..Len(chunks) :
        chunks[i].upload_status = "uploaded" => chunks[i].gcs_path # EmptyPath

(* C21: a chunk payload is marked failed only after its upload has been    *)
(* attempted 3 times and every attempt failed; if any of the 3 attempts    *)
(* would succeed the chunk ends as uploaded.                               *)
C21_FailedOnlyAfterThreeAttempts ==
    (resp.op = "audio" /\ resp.body.client) =>
        /\ ~resp.body.uploaded =>
               /\ resp.body.calls = 3
               /\ \A i \in 1..3 : resp.body.store[i] # "ok"
        /\ (\E i \in 1..3 : resp.body.store[i] = "ok") => resp.body.uploaded

\* s is strictly ascending
IsAscending(s) == \A i \in 1..(Len(s) - 1) : s[i] < s[i + 1]

\* the elements of the sequence s
Range(s) == {s[i] : i \in 1..Len(s)}

\* the chunk numbers of the session's rows whose status is uploaded
NumbersWithStatusUploaded(sid) ==
    {n \in 1..(MaxChunkNo + 1) :
        \E i \in 1..Len(chunks) : /\ chunks[i].session_id = sid
                                  /\ chunks[i].chunk_number = n
                                  /\ chunks[i].upload_status = "uploaded"}

(* C22: the progress result's missingChunks is the ascending list of the   *)
(* numbers in 1..totalExpected that are not the number of any chunk with   *)
(* status uploaded (failed and retrying chunks count as missing), and is   *)
(* empty whenever totalExpected is unset.                                  *)
C22_MissingChunksIsSetDifference ==
    (resp.op = "progress" /\ resp.code = 200) =>
        LET total == sessions[resp.sid].total_chunks_expected
            m == resp.body.missingChunks
        IN IF total = NoTotal THEN m = <<>>
           ELSE /\ IsAscending(m)
                /\ Range(m) = (1..total) \ NumbersWithStatusUploaded(resp.sid)

\* a progress report lists a chunk that is on the ledger as failed or retrying,
\* and leaves out one that is uploaded
C22_Witness ==
    /\ resp.op = "progress"
    /\ resp.code = 200
    /\ sessions[resp.sid].total_chunks_expected = 2
    /\ \E i \in 1..Len(chunks) :
          /\ chunks[i].session_id = resp.sid
          /\ chunks[i].upload_status \in {"failed", "retrying"}
          /\ chunks[i].chunk_number \in Range(resp.body.missingChunks)
    /\ \E i \in 1..Len(chunks) :
          /\ chunks[i].session_id = resp.sid
          /\ chunks[i].upload_status = "uploaded"
          /\ chunks[i].chunk_number \in 1..2
          /\ chunks[i].chunk_number \notin Range(resp.body.missingChunks)

(* C23: a session is reported complete (isComplete in the progress result) *)
(* only when the set of uploaded chunk numbers equals 1..total.            *)
C23_CompleteOnlyWithAllChunks ==
    (resp.op = "progress" /\ resp.code = 200 /\ resp.body.isComplete) =>
        /\ sessions[resp.sid].total_chunks_expected # NoTotal
        /\ NumbersWithStatusUploaded(resp.sid) = 1..sessions[resp.sid].total_chunks_expected

(* C24: delivering a chunk number again after its first delivery succeeded *)
(* returns success and leaves the ledger as it was: still one row for that *)
(* (session, number), unchanged.                                           *)
C24_DuplicateDeliveryIsNoOp ==
    [][\A sid \in Existing :
          (/\ Handled("notify", sid)
           /\ resp'.code = 200
           /\ \E i \in 1..Len(chunks) : /\ chunks[i].session_id = sid
                                        /\ chunks[i].chunk_number = resp'.body.chunkNumber
                                        /\ chunks[i].upload_status = "uploaded") =>
              chunks' = chunks]_vars

(* C25: with no storage provider configured, upload, presign and list each *)
(* return a successful result against a local/mock location.               *)
C25_NoProviderReportsSuccess ==
    /\ (resp.op = "audio" /\ ~resp.body.client) => resp.body.uploaded
    /\ (resp.op = "presign" /\ resp.code # 404 /\ ~resp.body.client) =>
           resp.body.result.success /\ resp.body.result.mock
    /\ (resp.op = "audio_list" /\ resp.code # 404 /\ ~resp.body.client) =>
           resp.code = 200

\* a text or binary message handled for a connection
MessageOps ==
    {"session_start", "pause_streaming", "resume_streaming", "stop_streaming",
     "audio", "audio_unbound"}

(* C26: when a keepalive ping cannot be delivered, the connection's        *)
(* handler terminates and the connection is unregistered: no message is    *)
(* handled on a registered connection whose keepalive has stopped.         *)
C26_DeadKeepaliveEndsConnection ==
    (resp.op \in MessageOps /\ resp.conn \in active_connections) =>
        keepalive[resp.conn] # "done"

(* C27: a connection's keepalive task never outlives the connection - when *)
(* the handler has terminated so has its keepalive - and terminating one   *)
(* connection never cancels the keepalive task of another.                 *)
C27_KeepaliveScopedToConnection ==
    /\ [](\A c \in RegistryConnIds : task[c] = "done" => keepalive[c] = "done")
    /\ [][\A c, d \in RegistryConnIds :
             (c # d /\ task[c] = "running" /\ task'[c] = "done") =>
                 keepalive'[d] = keepalive[d]]_vars

\* the first connection has just ended while the second is open, its keepalive
\* still running
C27_Witness ==
    /\ resp.op \in {"disconnect", "timeout_break"}
    /\ resp.conn = 1
    /\ task[1] = "done"
    /\ keepalive[1] = "done"
    /\ task[2] = "running"
    /\ keepalive[2] = "running"

(* C28: a failure while handling one message leaves the connection         *)
(* registered, bound and running, whereas a transport-level send or        *)
(* receive failure terminates the connection and unregisters it.           *)
C28_OnlyTransportFailureCloses ==
    [][/\ (resp'.op = "audio" /\ ~resp'.body.uploaded) =>
              /\ task'[resp'.conn] = "running"
              /\ resp'.conn \in active_connections'
              /\ SessionOfConnection(session_connections', resp'.conn) = resp'.sid
       /\ (\/ resp'.op = "disconnect"
           \/ resp'.op = "timeout_break"
           \/ (resp'.op \in {"session_start", "stop_streaming"}
                 /\ CountOf(resp'.sent, "error") > 0)) =>
              /\ task'[resp'.conn] = "done"
              /\ resp'.conn \notin active_connections']_vars

(* C29: every operation that names a session with no durable record        *)
(* (pause, resume, progress, retry-chunk, chunk notification,              *)
(* stop_streaming) reports not-found instead of a success acknowledgement  *)
(* and leaves the tables alone.                                            *)
C29_MissingSessionIsNotFound ==
    [][resp'.sid \in SessionIds \ Existing =>
          /\ resp'.op \in {"pause", "resume", "progress", "retry", "notify"} =>
                 resp'.code = 404 /\ sessions' = sessions /\ chunks' = chunks
          /\ resp'.op = "stop_streaming" =>
                 /\ CountOf(resp'.sent, "streaming_stopped") = 0
                 /\ sessions' = sessions /\ chunks' = chunks]_vars

(* C30: after the connection bound to a session has closed and a new       *)
(* connection has sent session_start for the session, the next chunk       *)
(* uploaded on the new connection is numbered last_chunk_number + 1, a     *)
(* number no chunk of the session carries yet.                             *)
C30_ReconnectContinuesNumbering ==
    [][\A sid \in Existing :
          (/\ resp.op = "session_start"
           /\ resp.sid = sid
           /\ resp.body.previous = NoId
           /\ \E i \in 1..Len(chunks) : chunks[i].session_id = sid
           /\ Handled("audio", sid)
           /\ resp'.conn = resp.conn
           /\ resp'.body.uploaded) =>
              /\ LastRow(chunks').chunk_number = sessions[sid].last_chunk_number + 1
              /\ \A i \in 1..Len(chunks) :
                    chunks[i].session_id = sid =>
                        chunks[i].chunk_number # LastRow(chunks').chunk_number]_vars

\* rows written by the stream handler for an uploaded frame, and rows written
\* by the chunk notification route
StreamRow(r) == r.is_processed
NotifiedRow(r) == ~r.is_processed /\ r.upload_status = "uploaded"

(* C31: when a WebSocket frame and an out-of-band chunk notification of    *)
(* the same session are handled one after the other in either order, the   *)
(* two never give one chunk number to two chunks, and the notification     *)
(* never loses an advance of last_chunk_number made by a frame.            *)
C31_CounterUpdatesExclusive ==
    [][\A sid \in Existing :
          /\ (Handled("notify", sid) /\ resp'.code = 200) =>
                 /\ \A i \in 1..Len(chunks) :
                       (chunks[i].session_id = sid /\ StreamRow(chunks[i])) =>
                           chunks[i].chunk_number # resp'.body.chunkNumber
                 /\ \A i \in 1..Len(chunks) :
                       (chunks[i].session_id = sid /\ StreamRow(chunks[i])) =>
                           sessions'[sid].last_chunk_number >= chunks[i].chunk_number
          /\ (Handled("audio", sid) /\ OneRowAdded) =>
                 \A i \in 1..Len(chunks) :
                    (chunks[i].session_id = sid /\ NotifiedRow(chunks[i])) =>
                        chunks[i].chunk_number # LastRow(chunks').chunk_number]_vars

(* C32: a frame uploaded to the object store is written to a path that no  *)
(* existing chunk row points to, so no upload overwrites stored bytes of   *)
(* a recorded chunk.                                                       *)
C32_UploadPathsDistinct ==
    [][(resp'.op = "audio" /\ resp'.body.uploaded /\ OneRowAdded) =>
          \A i \in 1..Len(chunks) :
             chunks[i].gcs_path # LastRow(chunks').gcs_path]_vars

(* C33: a chunk row whose upload_status is "uploaded" keeps that status    *)
(* under every later operation, retry-chunk requests included.             *)
C33_UploadedStaysUploaded ==
    [][\A i \in 1..Len(chunks) :
          chunks[i].upload_status = "uploaded" =>
              /\ i <= Len(chunks')
              /\ chunks'[i].upload_status = "uploaded"]_vars

(* C34: last_chunk_number of a session is at least the chunk number of     *)
(* every chunk row of the session whose upload_status is "uploaded".       *)
C34_CounterCoversUploaded ==
    \A i \in 1..Len(chunks) :
        (chunks[i].session_id \in Existing /\ chunks[i].upload_status = "uploaded") =>
            sessions[chunks[i].session_id].last_chunk_number >= chunks[i].chunk_number

(* C35: every connection id a session is bound to is a registered, open    *)
(* connection, after any sequence of connects, session_starts (several     *)
(* sessions on one connection included) and disconnects.                   *)
C35_NoDanglingBinding ==
    \A i \in 1..Len(session_connections) :
        /\ session_connections[i].cid \in active_connections
        /\ task[session_connections[i].cid] = "running"

(* C36: a connection id is bound to at most one session, and a binary      *)
(* frame that follows a session_start on the same connection is recorded   *)
(* under the session that session_start named.                             *)
C36_FrameGoesToLatestSession ==
    /\ [](\A i, j \in 1..Len(session_connections) :
             session_connections[i].cid = session_connections[j].cid => i = j)
    /\ [][(/\ resp.op = "session_start"
           /\ resp'.op \in {"audio", "audio_unbound"}
           /\ resp'.conn = resp.conn) =>
              /\ resp'.op = "audio"
              /\ resp'.sid = resp.sid
              /\ OneRowAdded => LastRow(chunks').session_id = resp.sid]_vars

(* C37: closing a connection leaves the bindings of every other connection *)
(* and the session its frames are routed to as they are; when the closed   *)
(* connection was bound to nothing (its session had been rebound), the     *)
(* next frame of the connection the session is bound to, and routed to,    *)
(* is recorded for that session.                                           *)
C37_StaleCloseKeepsNewBinding ==
    /\ [][resp'.op = "disconnect" =>
             /\ \A i \in 1..Len(session_connections) :
                   session_connections[i].cid # resp'.conn =>
                       ConnectionOfSession(session_connections',
                                           session_connections[i].sid)
                           = session_connections[i].cid
             /\ \A d \in RegistryConnIds \ {resp'.conn} :
                   SessionOfConnection(session_connections', d)
                       = SessionOfConnection(session_connections, d)]_vars
    /\ [][\A sid \in Existing :
             (/\ resp.op = "disconnect"
              /\ resp.sid = NoId
              /\ resp'.conn # resp.conn
              /\ ConnectionOfSession(session_connections, sid) = resp'.conn
              /\ SessionOfConnection(session_connections, resp'.conn) = sid
              /\ resp'.op \in {"audio", "audio_unbound"}) =>
                 /\ resp'.op = "audio"
                 /\ resp'.sid = sid
                 /\ OneRowAdded
                 /\ LastRow(chunks').session_id = sid
                 /\ session_connections' = session_connections]_vars

\* the first connection has streamed a chunk and closed, bound to nothing any
\* more; the session is bound to the second connection, which is open
C37_Witness ==
    /\ resp.op = "disconnect"
    /\ resp.conn = 1
    /\ resp.sid = NoId
    /\ task[1] = "done"
    /\ Len(chunks) = 1
    /\ ConnectionOfSession(session_connections, 1) = 2
    /\ 2 \in active_connections
    /\ task[2] = "running"

(* C38: the progress report of a session whose total_chunks_expected is    *)
(* set counts at most that many uploaded chunks and reports at most 100    *)
(* percent.                                                                *)
C38_ProgressAtMostHundred ==
    (resp.op = "progress" /\ resp.code = 200 /\ resp.body.totalChunksExpected > 0) =>
        /\ resp.body.chunksUploaded <= resp.body.totalChunksExpected
        /\ resp.body.progressPercentage <= 100

(* C39: for every session, resume_count <= pause_count <= resume_count + 1 *)
(* after any sequence of create, pause, resume and status updates.         *)
C39_PauseResumeCountsAlternate ==
    \A sid \in Existing :
        /\ sessions[sid].resume_count <= sessions[sid].pause_count
        /\ sessions[sid].pause_count <= sessions[sid].resume_count + 1

====
